---- MODULE Spec2Model ----
(***************************************************************************)
(* Model of snapshotter/utils/generic_worker.py: GenericAsyncWorker, the   *)
(* commit-and-submit pipeline of a snapshotter worker.                     *)
(*                                                                         *)
(* One worker object is shared by the commit tasks of one asyncio event    *)
(* loop.  A task runs _commit_payload; it is suspended at every await that *)
(* reaches the network and every action below is the code that runs from   *)
(* one such await to the next (the event loop is single threaded, so that  *)
(* code is atomic).  What the network answers, and whether the caller      *)
(* cancels the task, is chosen nondeterministically.                       *)
(***************************************************************************)
EXTENDS Integers, Sequences, FiniteSets, TLC

(***************************************************************************)
(* Bounds of the model.                                                    *)
(***************************************************************************)
\* number of _commit_payload calls made on the worker in one behaviour
MaxCommits == 2
\* number of detached _upload_web3_storage tasks alive at once
MaxArchives == 1
\* number of init() calls made on the worker in one behaviour
MaxInits == 3
\* number of streams opened through open_stream in one behaviour
MaxStreams == 3
\* number of _cancel_stream calls made on the worker in one behaviour
MaxCancels == 2

(***************************************************************************)
(* Program constants.                                                      *)
(***************************************************************************)
\* stop=stop_after_attempt(5) of both retry decorators
StopAfterAttempt == 5
\* source_block_time / 10 ** 4
BlockTimeDivisor == 10000

\* the commit tasks that may be in flight on the worker at once
Tasks == {1, 2}
ArchiveIds == 1 .. MaxArchives

\* inputs of _commit_payload: project_id, epoch.epochId and the snapshot, a
\* snapshot being the sequence of its fields in insertion order; the two
\* snapshots have the same fields and so the same canonical bytes
CommitInputs ==
    {[project_id |-> "projA", epochId |-> 0, snapshot |-> <<2, 1>>],
     [project_id |-> "projB", epochId |-> 1, snapshot |-> <<1, 2>>]}

\* content ids the storage backend may answer with
BackendCids == {[via |-> "ipfs", of |-> <<7>>], [via |-> "ipfs", of |-> <<8>>]}
\* a local variable that was never assigned
Unbound == [via |-> "unbound", of |-> <<>>]

\* json.dumps(snapshot.dict(by_alias=True), sort_keys=True, ...).encode():
\* the fields in sorted order, whatever order they were inserted in
RECURSIVE Insert(_, _)
Insert(x, sorted) ==
    IF sorted = <<>> THEN <<x>>
    ELSE IF x <= Head(sorted) THEN <<x>> \o sorted
    ELSE <<Head(sorted)>> \o Insert(x, Tail(sorted))

RECURSIVE SortKeys(_)
SortKeys(fields) ==
    IF fields = <<>> THEN <<>> ELSE Insert(Head(fields), SortKeys(Tail(fields)))

\* a variant of the serialization without sort_keys=True
snapshot_bytes_unsorted(snapshot) == snapshot

snapshot_bytes(snapshot) == SortKeys(snapshot)

\* cid_sha256_hash: a content hash computed locally from the bytes, no I/O
cid_sha256_hash(bytes) == [via |-> "sha256", of |-> bytes]

\* exceptions, by class
UploadErrors == {"IPFSAsyncClientError", "ConnectionError"}
TransportErrors == {"ConnectionResetError", "GRPCError"}
StreamErrors == TransportErrors \cup {"RuntimeError"}
\* raised by opening or leaving the stream's async with block
ContextErrors == {"GRPCError"}
ArchiveErrors == {"HTTPStatusError", "ConnectError"}

VARIABLES
    status,        \* self.status: the three SnapshotterStatus counters
    ipfs_url,      \* settings.ipfs.url is set
    pc,            \* per task: the await the task is suspended at
    arg,           \* per task: the arguments of its _commit_payload call
    attempt,       \* per task: attempt number of the retrying _upload_to_ipfs
    snapshot_cid,  \* per task: the local snapshot_cid of _commit_payload
    msg,           \* per task: the SnapshotSubmission built for the collector
    result,        \* per task: how the _commit_payload call ended
    sink,          \* what send_failure_notifications_async was handed
    archive,       \* the detached _upload_web3_storage tasks
    started,       \* number of _commit_payload calls made so far
    log,           \* per task: history of the current commit (observation only)
    streak,        \* history of the commits completed so far (observation only)
    stream,        \* per task: the local `stream` of _send_msg_with_closure
    wire,          \* the open streams of the channel: who wrote and read what
    worker,        \* what init() sets up: initialized, clients, channel, metadata
    ipc,           \* per caller of init(): the await the call is suspended at
    iread,         \* per caller of init(): how its two metadata reads ended
    inits,         \* number of init() calls made so far
    settings,      \* settings.slot_id, settings.protocol_state.deadline_buffer
    gen,           \* a direct call of generate_signature: arguments, await, result
    self_stream,   \* self._stream: the tracked stream, NoStream for None
    streams,       \* per stream opened through open_stream: its state
    ctx,           \* per open_stream context: where it is and its stream
    canc,          \* per caller of _cancel_stream: where the call is
    cancels        \* number of _cancel_stream calls made so far

\* the state of the commit pipeline
commitvars == <<status, ipfs_url, pc, arg, attempt, snapshot_cid, msg,
                result, sink, archive, started, log, streak, stream, wire>>
\* the state of the initialization
initvars == <<worker, ipc, iread, inits>>
\* the state the commit pipeline does not touch
\* the state of a direct call of generate_signature
genvars == <<settings, gen>>
\* the state of the tracked stream: self._stream and its users
streamvars == <<self_stream, streams, ctx, canc, cancels>>
others == <<initvars, genvars, streamvars>>

vars == <<commitvars, others>>

NoArg == [project_id |-> "projA", epochId |-> 0, snapshot |-> <<>>, storage_flag |-> FALSE]
NoMsg == [snapshotCid |-> Unbound, epochId |-> 0, projectId |-> "projA"]
NoResult == [kind |-> "none", value |-> Unbound, exc |-> "none"]
NoNotification == [issueType |-> "none", projectID |-> "projA", epochId |-> 0]

\* the history of one commit: the calls it made, what failed, what it recorded
NoLog == [add_bytes |-> 0, retried |-> 0, last_exc |-> "none",
          backend_cid |-> Unbound, upload |-> "none",
          get_block |-> 0, signed |-> 0, opened |-> 0, sent |-> 0,
          received |-> 0, acked |-> 0, stream_cancel |-> 0,
          error |-> "none", error_at |-> "none", cancelled_at |-> "none",
          miss_upload |-> 0, miss_submit |-> 0, successes |-> 0,
          notified |-> 0, flag |-> FALSE, archived |-> 0]

NoArchive == [pc |-> "none", attempt |-> 0, snapshot |-> <<>>]

ZeroStatus == [totalSuccessfulSubmissions |-> 0,
               totalMissedSubmissions |-> 0,
               consecutiveMissedSubmissions |-> 0]

NoStreak == [base |-> ZeroStatus, fails |-> 0, last |-> "none"]

\* the callers of init() that may be in flight at once
Callers == {1, 2}
\* configurations: the default slot id and the deadline buffer, in blocks
Settings == [slot_id : {3, 5}, deadline_buffer : {0, 1, 30}]
\* the configuration of the worker whose commits are followed
CommitSettings == [slot_id |-> 5, deadline_buffer |-> 30]
\* the slot_id argument of generate_signature: None, or an unsigned integer
None == <<>>
SlotIds == {None, <<0>>, <<1>>, <<7>>}
\* the private_key argument: None, or a hex string with or without 0x
PrivateKeys == {None, <<"0x", "ab">>, <<"ab">>}
\* blocks eth_get_block may answer with: the number as the hex digits of the
\* JSON-RPC string, and the hash
Blocks == {[number |-> <<0>>, hash |-> "hash_0x0"],
           [number |-> <<1, 0>>, hash |-> "hash_0x10"],
           [number |-> <<15, 15>>, hash |-> "hash_0xff"]}

\* what the contract may answer for SOURCE_CHAIN_BLOCK_TIME and EPOCH_SIZE
BlockTimes == {10000, 25000}
EpochSizes == {1, 10}

\* the Stream objects one channel can have open at once: one per running call
StreamIds == 1 .. Cardinality(Tasks)
\* the local `stream` before `async with ... as stream` binds it; also None
\* as the value of self._stream
NoStream == 0
\* the Stream objects opened through open_stream, in the order of opening
TrackedStreamIds == 1 .. MaxStreams
\* the `async with self.open_stream()` blocks that may be in flight at once
Contexts == {1, 2}
\* the tasks that call _cancel_stream
Watchdogs == {1, 2}
\* an open_stream context not entered
NoContext == [pc |-> "idle", stream |-> NoStream]
\* no _cancel_stream call in flight
NoCancel == [pc |-> "idle", target |-> NoStream, cleared |-> NoStream]
\* a stream nothing was written to or read from
NoWire == [msgs |-> {}, writers |-> {}, readers |-> {}]

\* awaits of one commit task
Suspended == {"add_bytes", "retry_sleep", "eth_get_block", "open",
              "send_message", "recv_message", "stream_cancel", "aexit"}
Ended == {"returned", "raised", "cancelled"}
ArchiveAlive == {"scheduled", "post", "retry_sleep"}

\* a worker attribute that was never assigned; a set one holds <<value>>
Unset == <<>>

\* GenericAsyncWorker.__init__: initialized = False, nothing is set up, and
\* no init() call is running
NotInitialized ==
    /\ worker = [initialized |-> FALSE, httpx |-> 0, rpc |-> 0, grpc |-> 0,
                 source_chain_block_time |-> Unset, epoch_size |-> Unset]
    /\ ipc = [c \in Callers |-> "idle"]
    /\ iread = [c \in Callers |->
                   [source_chain_block_time |-> "none", epoch_size |-> "none"]]
    /\ inits = 0

NoRequest == [slotId |-> 0, deadline |-> 0, snapshotCid |-> Unbound,
              epochId |-> 0, projectId |-> "projA"]
NoSignature == [by |-> None, of |-> NoRequest]
\* no call of generate_signature was made
NoGen == [pc |-> "idle", slot_id |-> None, private_key |-> None,
          snapshot_cid |-> Unbound, epoch_id |-> 0, project_id |-> "projA",
          block |-> [number |-> <<>>, hash |-> "none"],
          request |-> NoRequest, signature |-> NoSignature, header |-> "none"]

\* no open_stream context was entered and no _cancel_stream call made;
\* self._stream is None (_init_grpc, line 499)
NoStreamsOpened ==
    /\ self_stream = NoStream
    /\ streams = [s \in TrackedStreamIds |-> "unopened"]
    /\ ctx = [k \in Contexts |-> NoContext]
    /\ canc = [w \in Watchdogs |-> NoCancel]
    /\ cancels = 0

\* nothing is running on the worker
NothingRunning ==
    /\ NoStreamsOpened
    /\ gen = NoGen
    /\ status = ZeroStatus
    /\ pc = [t \in Tasks |-> "idle"]
    /\ arg = [t \in Tasks |-> NoArg]
    /\ attempt = [t \in Tasks |-> 0]
    /\ snapshot_cid = [t \in Tasks |-> Unbound]
    /\ msg = [t \in Tasks |-> NoMsg]
    /\ result = [t \in Tasks |-> NoResult]
    /\ sink = [sent |-> 0, last |-> NoNotification]
    /\ archive = [k \in ArchiveIds |-> NoArchive]
    /\ started = 0
    /\ log = [t \in Tasks |-> NoLog]
    /\ streak = NoStreak
    /\ stream = [t \in Tasks |-> NoStream]
    /\ wire = [i \in StreamIds |-> NoWire]

\* the worker as constructed, nothing running on it
Constructed ==
    /\ NotInitialized
    /\ NothingRunning

\* GenericAsyncWorker.__init__: status = SnapshotterStatus(projects=[]), every
\* counter 0; no commit is running
Init ==
    /\ Constructed
    /\ settings = CommitSettings
    /\ ipfs_url \in BOOLEAN

(***************************************************************************)
(* Exception classes and the retry policy of _upload_to_ipfs.              *)
(***************************************************************************)
\* `except Exception`: asyncio.CancelledError derives from BaseException and
\* is the one exception of the model that such a handler lets through
IsException(exc) == exc # "CancelledError"

\* retry=tenacity.retry_if_not_exception_type(IPFSAsyncClientError): the
\* predicate is asked about whatever the attempt raised
retry_if_not_exception_type(exc) == exc # "IPFSAsyncClientError"

\* a variant of the stop condition that allows one attempt more
stop_after_attempt_exclusive(attempt_number) ==
    attempt_number > StopAfterAttempt

\* stop=stop_after_attempt(5)
stop_after_attempt(attempt_number) == attempt_number >= StopAfterAttempt

\* what the retrying call does after an attempt raised exc: sleep and call
\* again ("retry"), or raise: the exception itself when the predicate
\* refuses it, RetryError when the attempts are used up
AfterAttempt(exc, attempt_number) ==
    IF retry_if_not_exception_type(exc)
    THEN IF stop_after_attempt(attempt_number) THEN "RetryError" ELSE "retry"
    ELSE exc

(***************************************************************************)
(* SnapshotterStatus updates and the failure notification.                 *)
(***************************************************************************)
\* a variant of the two increments that writes back a value read before
\* another commit recorded its failure
MissedSubmissionFromStaleRead(s) ==
    [s EXCEPT !.totalMissedSubmissions = ZeroStatus.totalMissedSubmissions + 1,
              !.consecutiveMissedSubmissions =
                  ZeroStatus.consecutiveMissedSubmissions + 1]

\* self.status.totalMissedSubmissions += 1
\* self.status.consecutiveMissedSubmissions += 1
MissedSubmission(s) ==
    [s EXCEPT !.totalMissedSubmissions = @ + 1,
              !.consecutiveMissedSubmissions = @ + 1]

\* a variant of the success branch that resets the total of misses as well
SuccessfulSubmissionResetsAll(s) ==
    [s EXCEPT !.consecutiveMissedSubmissions = 0,
              !.totalMissedSubmissions = 0,
              !.totalSuccessfulSubmissions = @ + 1]

\* self.status.consecutiveMissedSubmissions = 0
\* self.status.totalSuccessfulSubmissions += 1
SuccessfulSubmission(s) ==
    [s EXCEPT !.consecutiveMissedSubmissions = 0,
              !.totalSuccessfulSubmissions = @ + 1]

\* a variant of the report that does not carry the ids of the commit
notification_message_default(t) ==
    [issueType |-> "MISSED_SNAPSHOT",
     projectID |-> NoArg.project_id,
     epochId |-> NoArg.epochId]

\* SnapshotterReportData(snapshotterIssue=SnapshotterIssue(...))
notification_message(t) ==
    [issueType |-> "MISSED_SNAPSHOT",
     projectID |-> arg[t].project_id,
     epochId |-> arg[t].epochId]

\* send_failure_notifications_async(client, message): the non-blocking
\* calling convention of the notification sink; the report is handed over
\* and a failure of the sink is logged, it never reaches the caller.  The
\* sink is observed by the number of reports it got and the latest one.
send_failure_notifications_async(message) ==
    [sent |-> sink.sent + 1, last |-> message]

(***************************************************************************)
(* The end of _commit_payload.                                             *)
(***************************************************************************)
FreeArchive == CHOOSE k \in ArchiveIds : archive[k].pc \notin ArchiveAlive

\* if storage_flag: asyncio.ensure_future(self._upload_web3_storage(snapshot_bytes))
ensure_future_web3_storage(t) ==
    IF arg[t].storage_flag
    THEN [archive EXCEPT ![FreeArchive] =
             [pc |-> "scheduled", attempt |-> 0,
              snapshot |-> snapshot_bytes(arg[t].snapshot)]]
    ELSE archive

\* return snapshot_cid: reading a local that was never assigned raises
\* UnboundLocalError
return_snapshot_cid(cid) ==
    IF cid = Unbound
    THEN [kind |-> "raised", value |-> Unbound, exc |-> "UnboundLocalError"]
    ELSE [kind |-> "returned", value |-> cid, exc |-> "none"]

\* what really happened to a commit, whatever it recorded: "fail" when the
\* upload, the signing or the delivery failed, "ok" when the collector
\* acknowledged the message and nothing failed
Outcome(lg, kind) ==
    IF kind = "cancelled" \/ lg.cancelled_at # "none" THEN "other"
    ELSE IF lg.upload = "failed" \/ lg.error # "none"
         THEN IF lg.acked = 1 THEN "other" ELSE "fail"
         ELSE "ok"

\* the run of commits made one after another: the status it began with and
\* the number of failed commits since
StreakAtStart(t) ==
    IF streak.last = "overlap" \/ \E u \in Tasks \ {t} : pc[u] \in Suspended
    THEN [NoStreak EXCEPT !.last = "overlap"]
    ELSE IF streak.last = "fail" THEN streak
    ELSE [base |-> status, fails |-> 0, last |-> "none"]

StreakAtEnd(lg, kind) ==
    IF streak.last = "overlap" THEN streak
    ELSE IF Outcome(lg, kind) = "fail"
         THEN [streak EXCEPT !.fails = @ + 1, !.last = "fail"]
         ELSE [streak EXCEPT !.last = Outcome(lg, kind)]

\* no call has ended with its result not yet collected (see Collect)
Quiet == \A u \in Tasks : pc[u] \notin Ended

\* the call ends: its locals are gone, its result is with the caller.  The
\* attempt count of the upload is still seen in the state that follows the
\* end of the retrying call, and not after.
Finish(t, res, lg) ==
    /\ Quiet
    /\ result' = [result EXCEPT ![t] = res]
    /\ pc' = [pc EXCEPT ![t] = res.kind]
    /\ arg' = [arg EXCEPT ![t] = NoArg]
    /\ snapshot_cid' = [snapshot_cid EXCEPT ![t] = Unbound]
    /\ msg' = [msg EXCEPT ![t] = NoMsg]
    /\ attempt' = [attempt EXCEPT ![t] = IF pc[t] = "add_bytes" THEN @ ELSE 0]
    /\ log' = [log EXCEPT ![t] =
                  [lg EXCEPT !.add_bytes = IF pc[t] = "add_bytes" THEN @ ELSE 0,
                             !.retried = IF pc[t] = "add_bytes" THEN @ ELSE 0]]
    /\ streak' = StreakAtEnd(lg, res.kind)
    /\ stream' = [stream EXCEPT ![t] = NoStream]
    /\ wire' = IF stream[t] = NoStream THEN wire
               ELSE [wire EXCEPT ![stream[t]] = NoWire]
    /\ UNCHANGED <<ipfs_url, started,
                   others>>

Archived(t) == IF arg[t].storage_flag THEN 1 ELSE 0

\* a variant of the except branch of the upload that records the failure and
\* falls through to the submission instead of leaving the commit
UploadFailedThenSubmit(t, lg) ==
    /\ Quiet
    /\ status' = MissedSubmission(status)
    /\ sink' = send_failure_notifications_async(notification_message(t))
    /\ pc' = [pc EXCEPT ![t] = "eth_get_block"]
    /\ log' = [log EXCEPT ![t] =
                  [lg EXCEPT !.upload = "failed", !.miss_upload = @ + 1,
                             !.notified = @ + 1]]
    /\ UNCHANGED <<ipfs_url, arg, attempt, snapshot_cid, msg, result,
                   archive, started, streak, stream, wire,
                   others>>

\* the except branch of the upload (lines 346-366), then lines 398-402
UploadFailed(t, lg) ==
    /\ status' = MissedSubmission(status)
    /\ sink' = send_failure_notifications_async(notification_message(t))
    /\ archive' = ensure_future_web3_storage(t)
    /\ Finish(t, return_snapshot_cid(snapshot_cid[t]),
              [lg EXCEPT !.upload = "failed", !.miss_upload = @ + 1,
                         !.notified = @ + 1, !.archived = Archived(t)])

\* the except branch of the submission (lines 371-392), then lines 398-402
SubmitFailed(t, lg) ==
    /\ status' = MissedSubmission(status)
    /\ sink' = send_failure_notifications_async(notification_message(t))
    /\ archive' = ensure_future_web3_storage(t)
    /\ Finish(t, return_snapshot_cid(snapshot_cid[t]),
              [lg EXCEPT !.miss_submit = @ + 1, !.notified = @ + 1,
                         !.archived = Archived(t)])

\* the else branch of the submission (lines 393-396), then lines 398-402
SubmitReturned(t, lg) ==
    /\ status' = SuccessfulSubmission(status)
    /\ archive' = ensure_future_web3_storage(t)
    /\ Finish(t, return_snapshot_cid(snapshot_cid[t]),
              [lg EXCEPT !.successes = @ + 1, !.archived = Archived(t)])
    /\ UNCHANGED sink

\* CancelledError leaves _commit_payload: no handler of it catches it
Cancelled(t, lg) ==
    /\ Finish(t, [kind |-> "cancelled", value |-> Unbound,
                  exc |-> "CancelledError"], lg)
    /\ UNCHANGED <<status, sink, archive>>

\* the task stays in the commit and is suspended at the next await
Goto(t, next, lg) ==
    /\ Quiet
    /\ pc' = [pc EXCEPT ![t] = next]
    /\ log' = [log EXCEPT ![t] = lg]
    /\ UNCHANGED <<status, ipfs_url, arg, attempt, snapshot_cid,
                   msg, result, sink, archive, started, streak, stream, wire,
                   others>>

(***************************************************************************)
(* _commit_payload: the upload.                                            *)
(***************************************************************************)
\* a caller starts _commit_payload on a task: lines 339-345 up to the first
\* await.  With settings.ipfs.url the first add_bytes call is made; without
\* it the cid is hashed locally and the task goes on to generate_signature
\* and its eth_get_block call.
StartCommit(t, in, f) ==
    /\ pc[t] = "idle"
    /\ Quiet
    /\ started < MaxCommits
    /\ f => Cardinality({k \in ArchiveIds : archive[k].pc \in ArchiveAlive})
              + Cardinality({u \in Tasks : arg[u].storage_flag}) < MaxArchives
    /\ started' = started + 1
    /\ arg' = [arg EXCEPT ![t] = [project_id |-> in.project_id,
                                  epochId |-> in.epochId,
                                  snapshot |-> in.snapshot,
                                  storage_flag |-> f]]
    /\ streak' = StreakAtStart(t)
    /\ IF ipfs_url
       THEN /\ pc' = [pc EXCEPT ![t] = "add_bytes"]
            /\ attempt' = [attempt EXCEPT ![t] = 1]
            /\ snapshot_cid' = [snapshot_cid EXCEPT ![t] = Unbound]
            /\ log' = [log EXCEPT ![t] = [NoLog EXCEPT !.add_bytes = 1,
                                                       !.flag = f]]
       ELSE /\ pc' = [pc EXCEPT ![t] = "eth_get_block"]
            /\ attempt' = [attempt EXCEPT ![t] = 0]
            /\ snapshot_cid' = [snapshot_cid EXCEPT ![t] =
                                   cid_sha256_hash(snapshot_bytes(in.snapshot))]
            /\ log' = [log EXCEPT ![t] = [NoLog EXCEPT !.upload = "local",
                                                       !.get_block = 1,
                                                       !.flag = f]]
    /\ UNCHANGED <<status, ipfs_url, msg, result, sink, archive, stream, wire,
                   others>>

\* the caller has the result of an ended call and drops the task: what was
\* observed of that commit is forgotten.  It changes nothing the worker or
\* another task reads, so it is taken before any other step.
Collect(t) ==
    /\ pc[t] \in Ended
    /\ pc' = [pc EXCEPT ![t] = "idle"]
    /\ result' = [result EXCEPT ![t] = NoResult]
    /\ attempt' = [attempt EXCEPT ![t] = 0]
    /\ log' = [log EXCEPT ![t] = NoLog]
    /\ UNCHANGED <<status, ipfs_url, arg, snapshot_cid, msg, sink,
                   archive, started, streak, stream, wire,
                   others>>

\* add_bytes answers with a cid: _upload_to_ipfs returns it, the else branch
\* of the upload calls _send_submission_to_collector -> generate_signature
AddBytesReturns(t, c) ==
    /\ pc[t] = "add_bytes"
    /\ Quiet
    /\ snapshot_cid' = [snapshot_cid EXCEPT ![t] = c]
    /\ pc' = [pc EXCEPT ![t] = "eth_get_block"]
    /\ log' = [log EXCEPT ![t] = [@ EXCEPT !.upload = "ok", !.backend_cid = c,
                                           !.get_block = 1]]
    /\ UNCHANGED <<status, ipfs_url, arg, attempt, msg, result,
                   sink, archive, started, streak, stream, wire,
                   others>>

\* an attempt of _upload_to_ipfs ended with exc: the retry policy decides
AttemptRaised(t, exc, lg) ==
    LET raised == AfterAttempt(exc, attempt[t])
        lg2 == [lg EXCEPT !.last_exc = exc]
    IN  IF raised = "retry"
        THEN Goto(t, "retry_sleep", [lg2 EXCEPT !.retried = @ + 1])
        ELSE IF IsException(raised)
             THEN UploadFailed(t, [lg2 EXCEPT !.error = raised])
             ELSE Cancelled(t, lg2)

AddBytesRaises(t, exc) ==
    /\ pc[t] = "add_bytes"
    /\ AttemptRaised(t, exc, log[t])

\* wait_random_exponential is over: the next attempt calls add_bytes
RetrySleepDone(t) ==
    /\ pc[t] = "retry_sleep"
    /\ Quiet
    /\ pc' = [pc EXCEPT ![t] = "add_bytes"]
    /\ attempt' = [attempt EXCEPT ![t] = @ + 1]
    /\ log' = [log EXCEPT ![t] = [@ EXCEPT !.add_bytes = @ + 1,
                                           !.last_exc = "none"]]
    /\ UNCHANGED <<status, ipfs_url, arg, snapshot_cid, msg,
                   result, sink, archive, started, streak, stream, wire,
                   others>>

(***************************************************************************)
(* _send_submission_to_collector: generate_signature.                      *)
(***************************************************************************)
\* a variant of the signing that signs the local hash of the bytes whatever
\* the upload returned
GetBlockReturnsSignsLocalHash(t, sign_ok) ==
    /\ pc[t] = "eth_get_block"
    /\ Quiet
    /\ IF sign_ok
       THEN /\ msg' = [msg EXCEPT ![t] =
                         [snapshotCid |->
                              cid_sha256_hash(snapshot_bytes(arg[t].snapshot)),
                          epochId |-> arg[t].epochId,
                          projectId |-> arg[t].project_id]]
            /\ pc' = [pc EXCEPT ![t] = "open"]
            /\ attempt' = [attempt EXCEPT ![t] = 0]
            /\ log' = [log EXCEPT ![t] = [@ EXCEPT !.add_bytes = 0, !.retried = 0,
                                                   !.signed = 1,
                                                   !.opened = @ + 1]]
            /\ UNCHANGED <<status, ipfs_url, arg, snapshot_cid, result, sink,
                           archive, started, streak, stream, wire,
                   others>>
       ELSE SubmitFailed(t, [log[t] EXCEPT !.error = "SigningError",
                                           !.error_at = "sign"])

\* eth_get_block answers; the request is built and signed (lines 434-460)
\* and, back in _send_submission_to_collector, the message is built and
\* _send_msg_with_closure opens its stream.  A failure to sign leaves
\* generate_signature and _send_submission_to_collector, which has no
\* handler around the call, and reaches the except branch of the commit.
GetBlockReturns(t, sign_ok) ==
    /\ pc[t] = "eth_get_block"
    /\ Quiet
    /\ IF sign_ok
       THEN /\ msg' = [msg EXCEPT ![t] = [snapshotCid |-> snapshot_cid[t],
                                          epochId |-> arg[t].epochId,
                                          projectId |-> arg[t].project_id]]
            /\ pc' = [pc EXCEPT ![t] = "open"]
            /\ attempt' = [attempt EXCEPT ![t] = 0]
            /\ log' = [log EXCEPT ![t] = [@ EXCEPT !.add_bytes = 0, !.retried = 0,
                                                   !.signed = 1,
                                                   !.opened = @ + 1]]
            /\ UNCHANGED <<status, ipfs_url, arg, snapshot_cid,
                           result, sink, archive, started, streak, stream, wire,
                   others>>
       ELSE SubmitFailed(t, [log[t] EXCEPT !.error = "SigningError",
                                           !.error_at = "sign"])

\* a variant of the block fetch that is called again after it raised
GetBlockRaisesRetried(t) ==
    /\ pc[t] = "eth_get_block"
    /\ Goto(t, "eth_get_block", [log[t] EXCEPT !.get_block = @ + 1])

\* eth_get_block raises: nothing in generate_signature retries it
GetBlockRaises(t) ==
    /\ pc[t] = "eth_get_block"
    /\ SubmitFailed(t, [log[t] EXCEPT !.error = "RPCException",
                                      !.error_at = "eth_get_block"])

(***************************************************************************)
(* _send_msg_with_closure.                                                 *)
(***************************************************************************)
\* a handler of _send_submission_to_collector (lines 272-275) catches what
\* leaves _send_msg_with_closure, so the call returns to the commit
LeavesClosure(t, exc, lg) ==
    IF IsException(exc) THEN SubmitReturned(t, lg) ELSE Cancelled(t, lg)

\* the task goes on in _send_msg_with_closure with a call on its stream
OnStream(t, next, lg, s, w) ==
    /\ Quiet
    /\ pc' = [pc EXCEPT ![t] = next]
    /\ log' = [log EXCEPT ![t] = lg]
    /\ stream' = [stream EXCEPT ![t] = s]
    /\ wire' = [wire EXCEPT ![s] = w]
    /\ UNCHANGED <<status, ipfs_url, arg, attempt, snapshot_cid,
                   msg, result, sink, archive, started, streak,
                   others>>

\* a variant of the open that hands out the stream another call has open
SharedStream ==
    IF \E u \in Tasks : stream[u] # NoStream
    THEN CHOOSE s \in StreamIds : \E u \in Tasks : stream[u] = s
    ELSE CHOOSE s \in StreamIds : TRUE

\* self._grpc_stub.SubmitSnapshot.open(): every call makes a new Stream
FreeStream == CHOOSE s \in StreamIds : \A u \in Tasks : stream[u] # s

\* the stream is open and bound to the local `stream`:
\* stream.send_message(msg) is called on it
OpenReturns(t) ==
    /\ pc[t] = "open"
    /\ OnStream(t, "send_message", [log[t] EXCEPT !.sent = @ + 1], FreeStream,
                [wire[FreeStream] EXCEPT !.msgs = @ \cup {msg[t]},
                                         !.writers = @ \cup {t}])

\* opening the stream raises, outside the try of _send_msg_with_closure
OpenRaises(t, exc) ==
    /\ pc[t] = "open"
    /\ LeavesClosure(t, exc, [log[t] EXCEPT !.error = exc, !.error_at = "open"])

\* a variant of the transport-failure handler that sends the message again
RaisedInTryResends(t, exc, lg) ==
    IF exc \in TransportErrors
    THEN Goto(t, "send_message", [lg EXCEPT !.sent = @ + 1])
    ELSE Goto(t, "aexit", lg)

\* an exception inside the try (lines 281-305): a transport failure cancels
\* the stream under wait_for, any other is logged; none is raised again
RaisedInTry(t, exc, lg) ==
    IF exc \in TransportErrors
    THEN Goto(t, "stream_cancel", [lg EXCEPT !.stream_cancel = @ + 1])
    ELSE Goto(t, "aexit", lg)

\* send_message returns: stream.recv_message() is called
SendReturns(t) ==
    /\ pc[t] = "send_message"
    /\ OnStream(t, "recv_message", [log[t] EXCEPT !.received = @ + 1],
                stream[t], [wire[stream[t]] EXCEPT !.readers = @ \cup {t}])

SendRaises(t, exc) ==
    /\ pc[t] = "send_message"
    /\ RaisedInTry(t, exc, [log[t] EXCEPT !.error = exc,
                                          !.error_at = "send_message"])

\* the acknowledgement arrives: `return` leaves the async with block
RecvReturns(t) ==
    /\ pc[t] = "recv_message"
    /\ Goto(t, "aexit", [log[t] EXCEPT !.acked = @ + 1])

RecvRaises(t, exc) ==
    /\ pc[t] = "recv_message"
    /\ RaisedInTry(t, exc, [log[t] EXCEPT !.error = exc,
                                          !.error_at = "recv_message"])

\* a variant of the cancel attempt whose timeout is not caught
StreamCancelEndsEscalates(t, how) ==
    /\ pc[t] = "stream_cancel"
    /\ IF how = "TimeoutError"
       THEN LeavesClosure(t, how, log[t])
       ELSE Goto(t, "aexit", log[t])

\* wait_for(stream.cancel(), timeout=10) ends: it returns, times out or
\* raises; each handler only logs
StreamCancelEnds(t, how) ==
    /\ pc[t] = "stream_cancel"
    /\ Goto(t, "aexit", log[t])

\* the async with block is left and _send_msg_with_closure returns
AexitReturns(t) ==
    /\ pc[t] = "aexit"
    /\ SubmitReturned(t, log[t])

\* leaving the async with block raises
AexitRaises(t, exc) ==
    /\ pc[t] = "aexit"
    /\ LeavesClosure(t, exc, [log[t] EXCEPT
           !.error = IF @ = "none" THEN exc ELSE @,
           !.error_at = IF @ = "none" THEN "aexit" ELSE @])

(***************************************************************************)
(* Cancellation: the caller cancels the task and CancelledError is raised  *)
(* at the await the task is suspended at.                                  *)
(***************************************************************************)
Cancel(t) ==
    LET lg == [log[t] EXCEPT !.cancelled_at = pc[t]]
    IN  /\ pc[t] \in Suspended
        /\ log[t].cancelled_at = "none"
        /\ CASE pc[t] = "add_bytes" -> AttemptRaised(t, "CancelledError", lg)
             [] pc[t] \in {"send_message", "recv_message", "stream_cancel"} ->
                    Goto(t, "aexit", lg)
             [] OTHER -> Cancelled(t, lg)

(***************************************************************************)
(* _upload_web3_storage, detached by ensure_future.                        *)
(***************************************************************************)
ArchiveStep(k, next, n) ==
    /\ Quiet
    /\ archive' = [archive EXCEPT ![k] = [@ EXCEPT !.pc = next, !.attempt = n]]
    /\ UNCHANGED <<status, ipfs_url, pc, arg, attempt,
                   snapshot_cid, msg, result, sink, started, log, streak, stream, wire,
                   others>>

\* the event loop runs the task, which reads settings.web3storage.api_token:
\* without a token it returns at once
ArchiveRuns(k, api_token) ==
    /\ archive[k].pc = "scheduled"
    /\ IF api_token THEN ArchiveStep(k, "post", 1) ELSE ArchiveStep(k, "skipped", 0)

ArchivePostReturns(k) ==
    /\ archive[k].pc = "post"
    /\ ArchiveStep(k, "uploaded", 0)

\* a variant of the archival upload whose final failure is recorded as a
\* missed submission of the worker
ArchivePostRaisesCounted(k, exc) ==
    /\ archive[k].pc = "post"
    /\ Quiet
    /\ IF exc # "HTTPStatusError" /\ ~stop_after_attempt(archive[k].attempt)
       THEN /\ archive' = [archive EXCEPT ![k].pc = "retry_sleep"]
            /\ status' = status
       ELSE /\ archive' = [archive EXCEPT ![k].pc = "failed", ![k].attempt = 0]
            /\ status' = MissedSubmission(status)
    /\ UNCHANGED <<ipfs_url, pc, arg, attempt, snapshot_cid, msg, result,
                   sink, started, log, streak, stream, wire,
                   others>>

\* retry=retry_if_not_exception_type(httpx.HTTPStatusError), stop_after_attempt(5)
ArchivePostRaises(k, exc) ==
    /\ archive[k].pc = "post"
    /\ IF exc # "HTTPStatusError" /\ ~stop_after_attempt(archive[k].attempt)
       THEN ArchiveStep(k, "retry_sleep", archive[k].attempt)
       ELSE ArchiveStep(k, "failed", 0)

ArchiveSleepDone(k) ==
    /\ archive[k].pc = "retry_sleep"
    /\ ArchiveStep(k, "post", archive[k].attempt + 1)

(***************************************************************************)
(* init and _init_protocol_meta.  _init_httpx_client, _init_rpc_helper and *)
(* _init_grpc await nothing, so each runs within the step that calls it;   *)
(* the two web3_call reads are the awaits of init.                         *)
(***************************************************************************)
InitSuspended == {"block_time", "epoch_size"}

\* source_block_time / 10 ** 4: true division, kept as the exact fraction
TrueDiv(a, b) == [num |-> a, den |-> b]

InitStep(c, next, w, r) ==
    /\ ipc' = [ipc EXCEPT ![c] = next]
    /\ worker' = w
    /\ iread' = [iread EXCEPT ![c] = r]
    /\ UNCHANGED <<inits, genvars, streamvars, commitvars>>

\* _init_grpc: a new Channel and stub, then `self.initialized = True`
init_grpc(w) == [w EXCEPT !.grpc = @ + 1, !.initialized = TRUE]

\* init() is called: an initialized worker skips the four steps; otherwise
\* the HTTP clients and the RPC helpers are set up (_init_rpc_helper reads
\* the ABI file and the chain id and may raise) and _init_protocol_meta
\* makes its first read
InitCalled(c, rpc_ok) ==
    /\ ipc[c] \notin InitSuspended
    /\ inits < MaxInits
    /\ inits' = inits + 1
    /\ iread' = [iread EXCEPT ![c] = [source_chain_block_time |-> "none",
                                      epoch_size |-> "none"]]
    /\ IF worker.initialized
       THEN /\ ipc' = [ipc EXCEPT ![c] = "done"]
            /\ worker' = worker
       ELSE IF rpc_ok
            THEN /\ ipc' = [ipc EXCEPT ![c] = "block_time"]
                 /\ worker' = [worker EXCEPT !.httpx = @ + 1, !.rpc = @ + 1]
            ELSE /\ ipc' = [ipc EXCEPT ![c] = "raised"]
                 /\ worker' = [worker EXCEPT !.httpx = @ + 1]
    /\ UNCHANGED <<genvars, streamvars, commitvars>>

\* the read of SOURCE_CHAIN_BLOCK_TIME answers: the else branch sets the
\* field, then the read of EPOCH_SIZE is made
BlockTimeReturns(c, v) ==
    /\ ipc[c] = "block_time"
    /\ InitStep(c, "epoch_size",
                [worker EXCEPT !.source_chain_block_time =
                                   <<TrueDiv(v, BlockTimeDivisor)>>],
                [iread[c] EXCEPT !.source_chain_block_time = "ok"])

\* a variant of the first read without its handler: the exception leaves
\* _init_protocol_meta and init
BlockTimeRaisesAborts(c) ==
    /\ ipc[c] = "block_time"
    /\ InitStep(c, "raised", worker,
                [iread[c] EXCEPT !.source_chain_block_time = "failed"])

\* the read raises: `except Exception` logs it, the second read is made
BlockTimeRaises(c) ==
    /\ ipc[c] = "block_time"
    /\ InitStep(c, "epoch_size", worker,
                [iread[c] EXCEPT !.source_chain_block_time = "failed"])

\* the read of EPOCH_SIZE answers: the field is set, _init_protocol_meta
\* returns, _init_grpc runs and init sets initialized
EpochSizeReturns(c, v) ==
    /\ ipc[c] = "epoch_size"
    /\ InitStep(c, "done", init_grpc([worker EXCEPT !.epoch_size = <<v>>]),
                [iread[c] EXCEPT !.epoch_size = "ok"])

EpochSizeRaises(c) ==
    /\ ipc[c] = "epoch_size"
    /\ InitStep(c, "done", init_grpc(worker),
                [iread[c] EXCEPT !.epoch_size = "failed"])

\* the caller cancels init() at one of the reads: CancelledError is no
\* Exception and leaves _init_protocol_meta and init
InitCancelled(c) ==
    /\ ipc[c] \in InitSuspended
    /\ InitStep(c, "cancelled", worker, iread[c])

InitNext ==
    \/ \E c \in Callers, rpc_ok \in BOOLEAN : InitCalled(c, rpc_ok)
    \/ \E c \in Callers, v \in BlockTimes : BlockTimeReturns(c, v)
    \/ \E c \in Callers : BlockTimeRaises(c)
    \/ \E c \in Callers, v \in EpochSizes : EpochSizeReturns(c, v)
    \/ \E c \in Callers : EpochSizeRaises(c)
    \/ \E c \in Callers : InitCancelled(c)

(***************************************************************************)
(* generate_signature, called directly with its slot_id and private_key.   *)
(***************************************************************************)
\* int(current_block['number'], 16)
RECURSIVE HexToInt(_)
HexToInt(digits) ==
    IF digits = <<>> THEN 0
    ELSE 16 * HexToInt(SubSeq(digits, 1, Len(digits) - 1)) + digits[Len(digits)]

\* settings.slot_id if not slot_id else slot_id: None and 0 are both falsy
request_slot_id(slot_id, default) ==
    IF slot_id = None \/ slot_id[1] = 0 THEN default ELSE slot_id[1]

\* deadline = current_block_number + settings.protocol_state.deadline_buffer
Deadline(current_block_number, deadline_buffer) ==
    current_block_number + deadline_buffer

\* if private_key.startswith('0x'): private_key = private_key[2:]
Strip0x(private_key) ==
    IF Head(private_key) = "0x" THEN Tail(private_key) ELSE private_key

\* the key that signs: the identity key of the worker unless one is passed
Signer(private_key) ==
    IF private_key = None THEN <<"identity">> ELSE Strip0x(private_key)

GenSuspended == {"eth_get_block"}

GenStep(g) ==
    /\ gen' = g
    /\ UNCHANGED <<settings, initvars, streamvars, commitvars>>

\* generate_signature is called: it awaits eth_get_block
GenCalled(in, slot_id, private_key) ==
    /\ gen.pc \notin GenSuspended
    /\ GenStep([NoGen EXCEPT
           !.pc = "eth_get_block",
           !.slot_id = slot_id,
           !.private_key = private_key,
           !.snapshot_cid = cid_sha256_hash(snapshot_bytes(in.snapshot)),
           !.epoch_id = in.epochId,
           !.project_id = in.project_id])

\* the block arrives: the request is built and signed and returned with the
\* hash of the block (lines 434-460); a failure to sign raises
GenBlockReturns(current_block, sign_ok) ==
    LET request ==
            [slotId |-> request_slot_id(gen.slot_id, settings.slot_id),
             deadline |-> Deadline(HexToInt(current_block.number),
                                   settings.deadline_buffer),
             snapshotCid |-> gen.snapshot_cid,
             epochId |-> gen.epoch_id,
             projectId |-> gen.project_id]
    IN  /\ gen.pc = "eth_get_block"
        /\ IF sign_ok
           THEN GenStep([gen EXCEPT
                    !.pc = "returned",
                    !.block = current_block,
                    !.request = request,
                    !.signature = [by |-> Signer(gen.private_key),
                                   of |-> request],
                    !.header = current_block.hash])
           ELSE GenStep([gen EXCEPT !.pc = "raised", !.block = current_block])

\* eth_get_block raises, or the caller cancels the call while it waits
GenBlockRaises(how) ==
    /\ gen.pc = "eth_get_block"
    /\ GenStep([gen EXCEPT !.pc = how])

GenNext ==
    \/ \E in \in CommitInputs, slot_id \in SlotIds, private_key \in PrivateKeys :
            GenCalled(in, slot_id, private_key)
    \/ \E current_block \in Blocks, sign_ok \in BOOLEAN :
            GenBlockReturns(current_block, sign_ok)
    \/ \E how \in {"raised", "cancelled"} : GenBlockRaises(how)

(***************************************************************************)
(* open_stream and _cancel_stream (lines 227-243): the stream tracked in    *)
(* self._stream.  A context suspends while the stream is opened, in the     *)
(* body of the caller's `async with` block and while the block is left;     *)
(* _cancel_stream suspends in `await self._stream.cancel()`.                *)
(***************************************************************************)
ContextSuspended == {"open", "body", "aexit"}

\* the next Stream object SubmitSnapshot.open() creates
NewStream ==
    CHOOSE s \in TrackedStreamIds :
        /\ streams[s] = "unopened"
        /\ \A r \in TrackedStreamIds : r < s => streams[r] # "unopened"

StreamStep(ss, st, cx, cn) ==
    /\ self_stream' = ss
    /\ streams' = st
    /\ ctx' = cx
    /\ canc' = cn
    /\ UNCHANGED <<initvars, genvars, commitvars>>

\* `async with self.open_stream()` is entered: SubmitSnapshot.open() is awaited
OpenStreamCalled(k) ==
    /\ ctx[k].pc \notin ContextSuspended
    /\ Cardinality({s \in TrackedStreamIds : streams[s] = "unopened"})
          > Cardinality({j \in Contexts : ctx[j].pc = "open"})
    /\ StreamStep(self_stream, streams, [ctx EXCEPT ![k] = [pc |-> "open", stream |-> NoStream]], canc)
    /\ UNCHANGED cancels

\* the stream is open: `self._stream = stream`, then the body of the caller
\* runs with it (lines 231-232)
OpenStreamReturns(k) ==
    /\ ctx[k].pc = "open"
    /\ StreamStep(NewStream,
                  [streams EXCEPT ![NewStream] = "open"],
                  [ctx EXCEPT ![k] = [pc |-> "body", stream |-> NewStream]],
                  canc)
    /\ UNCHANGED cancels

\* opening raises, or the caller is cancelled while it opens: the finally
\* clause assigns None (line 234)
OpenStreamRaises(k) ==
    /\ ctx[k].pc = "open"
    /\ StreamStep(NoStream, streams,
                  [ctx EXCEPT ![k] = [pc |-> "raised", stream |-> NoStream]],
                  canc)
    /\ UNCHANGED cancels

\* the body of the caller ends, by returning or by raising: the stream's
\* own `async with` block is left
BodyEnds(k) ==
    /\ ctx[k].pc = "body"
    /\ StreamStep(self_stream, streams, [ctx EXCEPT ![k].pc = "aexit"], canc)
    /\ UNCHANGED cancels

\* the stream's block is left: the stream is closed whether or not leaving
\* raised, and the finally clause assigns None (line 234)
StreamClosed(k) ==
    /\ ctx[k].pc = "aexit"
    /\ StreamStep(NoStream,
                  [streams EXCEPT ![ctx[k].stream] =
                       IF @ = "open" THEN "closed" ELSE @],
                  [ctx EXCEPT ![k].pc = "exited"],
                  canc)
    /\ UNCHANGED cancels

\* _cancel_stream is called: with no tracked stream it returns; otherwise
\* cancel() of the stream self._stream names now is awaited (lines 237-239)
CancelStreamCalled(w) ==
    /\ canc[w].pc # "cancel"
    /\ cancels < MaxCancels
    /\ cancels' = cancels + 1
    /\ StreamStep(self_stream, streams, ctx,
                  [canc EXCEPT ![w] =
                      IF self_stream = NoStream
                      THEN [pc |-> "done", target |-> NoStream,
                            cleared |-> NoStream]
                      ELSE [pc |-> "cancel", target |-> self_stream,
                            cleared |-> NoStream]])

\* cancel() ends: it returns, and the stream is cancelled, or it raises or
\* the caller is cancelled, which the bare `except:` swallows (line 240);
\* then `self._stream = None` (line 243), whatever self._stream names by now
CancelStreamEnds(w, how) ==
    /\ canc[w].pc = "cancel"
    /\ StreamStep(NoStream,
                  [streams EXCEPT ![canc[w].target] =
                       IF @ = "open" /\ how = "returns" THEN "cancelled" ELSE @],
                  ctx,
                  [canc EXCEPT ![w].pc = "done", ![w].cleared = self_stream])
    /\ UNCHANGED cancels

StreamNext ==
    \/ \E k \in Contexts : OpenStreamCalled(k)
    \/ \E k \in Contexts : OpenStreamReturns(k)
    \/ \E k \in Contexts : OpenStreamRaises(k)
    \/ \E k \in Contexts : BodyEnds(k)
    \/ \E k \in Contexts : StreamClosed(k)
    \/ \E w \in Watchdogs : CancelStreamCalled(w)
    \/ \E w \in Watchdogs, how \in {"returns", "raises", "cancelled"} :
            CancelStreamEnds(w, how)

(***************************************************************************)
(* The specification.                                                      *)
(***************************************************************************)
CancelOutcomes == {"returned", "TimeoutError", "Exception"}

Next ==
    \/ \E t \in Tasks, in \in CommitInputs, f \in BOOLEAN : StartCommit(t, in, f)
    \/ \E t \in Tasks : Collect(t)
    \/ \E t \in Tasks, c \in BackendCids : AddBytesReturns(t, c)
    \/ \E t \in Tasks, exc \in UploadErrors : AddBytesRaises(t, exc)
    \/ \E t \in Tasks : RetrySleepDone(t)
    \/ \E t \in Tasks, sign_ok \in BOOLEAN : GetBlockReturns(t, sign_ok)
    \/ \E t \in Tasks : GetBlockRaises(t)
    \/ \E t \in Tasks : OpenReturns(t)
    \/ \E t \in Tasks, exc \in ContextErrors : OpenRaises(t, exc)
    \/ \E t \in Tasks : SendReturns(t)
    \/ \E t \in Tasks, exc \in StreamErrors : SendRaises(t, exc)
    \/ \E t \in Tasks : RecvReturns(t)
    \/ \E t \in Tasks, exc \in StreamErrors : RecvRaises(t, exc)
    \/ \E t \in Tasks, how \in CancelOutcomes : StreamCancelEnds(t, how)
    \/ \E t \in Tasks : AexitReturns(t)
    \/ \E t \in Tasks, exc \in ContextErrors : AexitRaises(t, exc)
    \/ \E t \in Tasks : Cancel(t)
    \/ \E k \in ArchiveIds, api_token \in BOOLEAN : ArchiveRuns(k, api_token)
    \/ \E k \in ArchiveIds : ArchivePostReturns(k)
    \/ \E k \in ArchiveIds, exc \in ArchiveErrors : ArchivePostRaises(k, exc)
    \/ \E k \in ArchiveIds : ArchiveSleepDone(k)

Spec == Init /\ [][Next]_vars

\* the worker before any commit, its initialization being run
InitInit ==
    /\ Constructed
    /\ settings = CommitSettings
    /\ ipfs_url = FALSE

InitSpec == InitInit /\ [][InitNext]_vars

\* a worker of any configuration on which generate_signature is called
GenInit ==
    /\ Constructed
    /\ settings \in Settings
    /\ ipfs_url = FALSE

GenSpec == GenInit /\ [][GenNext]_vars

\* a worker whose init() completed, on which streams are opened and cancelled
StreamInit ==
    /\ worker = [initialized |-> TRUE, httpx |-> 1, rpc |-> 1, grpc |-> 1,
                 source_chain_block_time |-> <<TrueDiv(10000, BlockTimeDivisor)>>,
                 epoch_size |-> <<10>>]
    /\ ipc = [c \in Callers |-> "idle"]
    /\ iread = [c \in Callers |->
                   [source_chain_block_time |-> "none", epoch_size |-> "none"]]
    /\ inits = 0
    /\ NothingRunning
    /\ settings = CommitSettings
    /\ ipfs_url = FALSE

StreamSpec == StreamInit /\ [][StreamNext]_vars

(***************************************************************************)
(* Properties.                                                             *)
(***************************************************************************)
Misses(t) == log[t].miss_upload + log[t].miss_submit

\* task t ends its commit in this step
Ends(t) == pc[t] \in Suspended /\ pc'[t] \in Ended

\* C1: a commit whose upload and signing succeeded and whose send, or wait
\* for the acknowledgement, failed with a transport error or another error
\* that is no cancellation records a failure (both missed counters +1, one
\* MISSED_SNAPSHOT notification) and no success.
C1_StreamFailureRecordsFailure ==
    \A t \in Tasks :
        ( /\ pc[t] = "returned"
          /\ log[t].cancelled_at = "none"
          /\ log[t].upload \in {"ok", "local"}
          /\ log[t].signed = 1
          /\ log[t].error_at \in {"send_message", "recv_message"} )
        => /\ log[t].miss_submit = 1
           /\ log[t].notified = 1
           /\ log[t].successes = 0

\* C2: in a commit whose upload fails no later step of the submission leg
\* runs: no block is fetched, nothing is signed, no stream is opened and no
\* message is sent.
C2_NoSubmissionAfterUploadFailure ==
    \A t \in Tasks :
        (log[t].upload = "failed" \/ pc[t] \in {"add_bytes", "retry_sleep"})
        => /\ log[t].get_block = 0
           /\ log[t].signed = 0
           /\ log[t].opened = 0
           /\ log[t].sent = 0
           /\ log[t].received = 0
           /\ msg[t] = NoMsg

C2_Witness ==
    \E t \in Tasks :
        pc[t] = "raised" /\ log[t].upload = "failed" /\ log[t].miss_upload = 1

\* C3: a commit that is not cancelled ends by returning a value: the content
\* id of the upload when the upload succeeded, whatever happened to the
\* signing and the submission, and a value, not an exception, when the
\* upload failed.
C3_CommitReturns ==
    \A t \in Tasks :
        (pc[t] \in Ended /\ log[t].cancelled_at = "none")
        => /\ result[t].kind = "returned"
           /\ log[t].upload = "ok" => result[t].value = log[t].backend_cid

\* C4: a step that records a failure adds exactly 1 to totalMissedSubmissions
\* and to consecutiveMissedSubmissions and hands the sink exactly one
\* MISSED_SNAPSHOT notification with the project and epoch of the commit that
\* ends in that step; a commit records a failure at most once, on one of the
\* two paths; a commit that records a success sends no notification.
C4_Step ==
    LET missed == status'.totalMissedSubmissions - status.totalMissedSubmissions
    IN  /\ missed \in {0, 1}
        /\ missed = 1 =>
              /\ status'.consecutiveMissedSubmissions
                     = status.consecutiveMissedSubmissions + 1
              /\ status'.totalSuccessfulSubmissions
                     = status.totalSuccessfulSubmissions
              /\ sink'.sent = sink.sent + 1
              /\ \E t \in Tasks :
                    /\ Ends(t)
                    /\ sink'.last = [issueType |-> "MISSED_SNAPSHOT",
                                     projectID |-> arg[t].project_id,
                                     epochId |-> arg[t].epochId]
                    /\ Misses(t) = 0
                    /\ log'[t].miss_upload + log'[t].miss_submit = 1
                    /\ log'[t].notified = 1
                    /\ log'[t].successes = 0
        /\ missed = 0 => sink' = sink
        /\ \A t \in Tasks :
              /\ log'[t].notified = log'[t].miss_upload + log'[t].miss_submit
              /\ log'[t].notified + log'[t].successes <= 1

C4_FailureRecordedOnce == [][C4_Step]_vars

C4_Witness ==
    \E t \in Tasks :
        /\ pc[t] = "returned"
        /\ log[t].miss_submit = 1
        /\ sink.sent = 2
        /\ status.consecutiveMissedSubmissions = 2

\* C5: in a run of commits made one after another, after N commits that
\* failed and one that succeeded, consecutiveMissedSubmissions is 0,
\* totalMissedSubmissions has grown by N and totalSuccessfulSubmissions by 1.
C5_StreakAccounting ==
    streak.last = "ok" =>
        /\ status.consecutiveMissedSubmissions = 0
        /\ status.totalMissedSubmissions
               = streak.base.totalMissedSubmissions + streak.fails
        /\ status.totalSuccessfulSubmissions
               = streak.base.totalSuccessfulSubmissions + 1

\* C6: no step decreases totalSuccessfulSubmissions or
\* totalMissedSubmissions; consecutiveMissedSubmissions changes only by +1,
\* together with totalMissedSubmissions, or to 0, together with a success;
\* 0 <= consecutiveMissedSubmissions <= totalMissedSubmissions throughout.
C6_Step ==
    /\ status'.totalSuccessfulSubmissions >= status.totalSuccessfulSubmissions
    /\ status'.totalMissedSubmissions >= status.totalMissedSubmissions
    /\ \/ /\ status'.consecutiveMissedSubmissions
                 = status.consecutiveMissedSubmissions
          /\ \/ status' = status
             \/ status.consecutiveMissedSubmissions = 0
       \/ /\ status'.consecutiveMissedSubmissions
                 = status.consecutiveMissedSubmissions + 1
          /\ status'.totalMissedSubmissions = status.totalMissedSubmissions + 1
       \/ /\ status'.consecutiveMissedSubmissions = 0
          /\ status'.totalSuccessfulSubmissions
                 = status.totalSuccessfulSubmissions + 1
    /\ 0 <= status.consecutiveMissedSubmissions
    /\ status.consecutiveMissedSubmissions <= status.totalMissedSubmissions
    /\ 0 <= status'.consecutiveMissedSubmissions
    /\ status'.consecutiveMissedSubmissions <= status'.totalMissedSubmissions

C6_CountersMonotonic == [][C6_Step]_vars

C6_Witness ==
    /\ status.totalMissedSubmissions = 1
    /\ status.consecutiveMissedSubmissions = 0
    /\ status.totalSuccessfulSubmissions = 1
    /\ streak.last = "overlap"

\* C7: the upload with a backend is bounded: add_bytes is called at most 5
\* times; an attempt that raised IPFSAsyncClientError is never followed by
\* another and fails the upload with that error (after one call when it is
\* the first); the upload fails with RetryError only after exactly 5 calls;
\* when attempt k succeeds exactly k calls were made and the content id the
\* commit goes on with, and returns, is the one that attempt answered.
C7_UploadBounded ==
    \A t \in Tasks :
        /\ log[t].add_bytes <= StopAfterAttempt
        /\ pc[t] = "retry_sleep" => log[t].last_exc # "IPFSAsyncClientError"
        /\ log[t].upload = "failed" =>
              /\ log[t].miss_upload = 1
              /\ log[t].error \in {"RetryError", "IPFSAsyncClientError"}
              /\ log[t].error = "RetryError" =>
                    /\ log[t].add_bytes = StopAfterAttempt
                    /\ log[t].retried = StopAfterAttempt - 1
                    /\ log[t].last_exc # "IPFSAsyncClientError"
              /\ log[t].error = "IPFSAsyncClientError" =>
                    /\ log[t].last_exc = "IPFSAsyncClientError"
                    /\ log[t].add_bytes = log[t].retried + 1
        /\ (log[t].upload = "ok" /\ pc[t] = "eth_get_block") =>
              /\ log[t].add_bytes = attempt[t]
              /\ log[t].add_bytes = log[t].retried + 1
        /\ (log[t].upload = "ok" /\ pc[t] \in Suspended) =>
              snapshot_cid[t] = log[t].backend_cid
        /\ (log[t].upload = "ok" /\ pc[t] = "returned") =>
              result[t].value = log[t].backend_cid

C7_Witness ==
    \E t \in Tasks :
        /\ log[t].upload = "failed"
        /\ log[t].error = "RetryError"
        /\ log[t].cancelled_at = "none"
        /\ log[t].add_bytes = 5

\* C8: one call of _send_msg_with_closure, and so one commit, opens at most
\* one stream, sends the message at most once and waits for at most one
\* acknowledgement, whatever fails.
C8_AtMostOneDelivery ==
    \A t \in Tasks :
        /\ log[t].opened <= 1
        /\ log[t].sent <= 1
        /\ log[t].received <= 1
        /\ log[t].acked <= log[t].received
        /\ log[t].received <= log[t].sent
        /\ log[t].sent <= log[t].opened

C8_Witness ==
    \E t \in Tasks :
        /\ pc[t] = "returned"
        /\ log[t].error_at = "send_message"
        /\ log[t].error \in TransportErrors
        /\ log[t].stream_cancel = 1
        /\ log[t].sent = 1

\* C9: a commit that its caller cancelled while it was suspended in the
\* upload, in the block fetch or in the stream send or receive records no
\* failure: it adds nothing to the missed counters and sends no notification.
C9_CancelledNotAccounted ==
    \A t \in Tasks :
        log[t].cancelled_at \in {"add_bytes", "retry_sleep", "eth_get_block",
                                 "send_message", "recv_message"}
        => Misses(t) = 0 /\ log[t].notified = 0

\* C10: the archival upload is a bystander: a step of a detached
\* _upload_web3_storage task changes nothing but that task; a task is
\* detached only by a commit that ends without being cancelled and has
\* storage_flag set, on the canonical bytes of its snapshot; and a commit
\* ends with the same counters, notification and result whatever its flag.
C10_Step ==
    /\ (archive' # archive /\ pc' = pc) =>
          UNCHANGED <<status, sink, result, arg, attempt, snapshot_cid, msg,
                      log, started, streak>>
    /\ \A t \in Tasks :
          Ends(t) =>
             /\ IF arg[t].storage_flag /\ pc'[t] # "cancelled"
                THEN \E k \in ArchiveIds :
                        /\ archive[k].pc \notin ArchiveAlive
                        /\ archive' = [archive EXCEPT ![k] =
                              [pc |-> "scheduled", attempt |-> 0,
                               snapshot |-> SortKeys(arg[t].snapshot)]]
                ELSE archive' = archive
             /\ status' \in {status, MissedSubmission(status),
                             SuccessfulSubmission(status)}
             /\ status' = status <=> pc'[t] = "cancelled"
             /\ result'[t] = IF pc'[t] = "cancelled"
                             THEN [kind |-> "cancelled", value |-> Unbound,
                                   exc |-> "CancelledError"]
                             ELSE return_snapshot_cid(snapshot_cid[t])
             /\ sink' = IF status' = MissedSubmission(status)
                        THEN [sent |-> sink.sent + 1,
                              last |-> notification_message(t)]
                        ELSE sink
    /\ (\A t \in Tasks : ~Ends(t)) => (status' = status /\ sink' = sink)

C10_ArchiveIsBystander == [][C10_Step]_vars

C10_Witness ==
    \E k \in ArchiveIds :
        /\ archive[k].pc = "failed"
        /\ archive[k].snapshot = <<1, 2>>
        /\ status.totalSuccessfulSubmissions = 1
        /\ status.totalMissedSubmissions = 0

\* number of commits that record a failure in this step
Recording ==
    Cardinality({t \in Tasks :
        log'[t].miss_upload + log'[t].miss_submit = Misses(t) + 1})

\* C11 (as claimed): when two commits that overlapped have both recorded a
\* failure and no success was recorded, consecutiveMissedSubmissions or
\* totalMissedSubmissions has grown by less than 2.
C11_RacingFailuresLoseUpdate ==
    ( /\ streak.last = "overlap"
      /\ sink.sent = 2
      /\ status.totalSuccessfulSubmissions = 0 )
    => \/ status.consecutiveMissedSubmissions < 2
       \/ status.totalMissedSubmissions < 2

\* C11 (amended): no interleaving of commits loses a counter update: a step
\* in which a commit records a failure adds 1 to both missed counters, so
\* totalMissedSubmissions is the number of failures recorded so far and,
\* while no success was recorded, so is consecutiveMissedSubmissions.
C11_Step ==
    /\ Recording <= 1
    /\ Recording = 1 =>
          /\ status'.totalMissedSubmissions = status.totalMissedSubmissions + 1
          /\ status'.consecutiveMissedSubmissions
                 = status.consecutiveMissedSubmissions + 1
    /\ status.totalMissedSubmissions = sink.sent
    /\ status'.totalMissedSubmissions = sink'.sent
    /\ status'.totalSuccessfulSubmissions = 0 =>
          status'.consecutiveMissedSubmissions = sink'.sent

C11_NoLostUpdate == [][C11_Step]_vars

C11_Witness ==
    /\ streak.last = "overlap"
    /\ sink.sent = 2
    /\ status.totalSuccessfulSubmissions = 0
    /\ status.consecutiveMissedSubmissions = 2
    /\ status.totalMissedSubmissions = 2

\* C12: under any interleaving of submit calls on the one channel no stream
\* is written or read by two tasks: a stream carries only the message of the
\* call that opened it, only that call reads from it, and the
\* acknowledgement a call received came on the stream its own message, and
\* no other, was sent on.
C12_StreamsNotShared ==
    /\ \A i \in StreamIds :
          Cardinality(wire[i].writers \cup wire[i].readers) <= 1
    /\ \A t \in Tasks :
          stream[t] # NoStream =>
             /\ \A u \in Tasks \ {t} : stream[u] # stream[t]
             /\ wire[stream[t]].writers = {t}
             /\ wire[stream[t]].readers \subseteq {t}
             /\ wire[stream[t]].msgs = {msg[t]}
             /\ log[t].acked = 1 => wire[stream[t]].readers = {t}
    /\ \A t \in Tasks :
          pc[t] \in {"send_message", "recv_message", "stream_cancel", "aexit"}
              <=> stream[t] # NoStream

C12_Witness ==
    \E t \in Tasks : \E u \in Tasks \ {t} :
        /\ pc[t] = "aexit"
        /\ log[t].acked = 1
        /\ pc[u] = "recv_message"
        /\ msg[t] # msg[u]
        /\ stream[t] # stream[u]

\* C13: within one commit the steps are ordered, whatever other commits do
\* in between: the block is fetched only after the upload (or the local
\* hashing) gave the content id, the stream is opened only after the request
\* was signed, the message is sent only on the opened stream, and the signed
\* request carries the content id, epoch and project of this same commit.
C13_StepsOrdered ==
    \A t \in Tasks :
        /\ pc[t] \in {"add_bytes", "retry_sleep"} =>
              /\ log[t].upload = "none"
              /\ snapshot_cid[t] = Unbound
              /\ log[t].get_block = 0
        /\ log[t].get_block >= 1 => log[t].upload \in {"ok", "local"}
        /\ pc[t] = "eth_get_block" =>
              /\ snapshot_cid[t] # Unbound
              /\ log[t].signed = 0
              /\ log[t].opened = 0
              /\ msg[t] = NoMsg
        /\ log[t].signed >= 1 => log[t].get_block = 1
        /\ log[t].opened >= 1 => log[t].signed = 1
        /\ log[t].sent >= 1 => log[t].opened = 1
        /\ msg[t] # NoMsg =>
              /\ log[t].signed = 1
              /\ msg[t].snapshotCid = snapshot_cid[t]
              /\ msg[t].epochId = arg[t].epochId
              /\ msg[t].projectId = arg[t].project_id
              /\ log[t].upload = "ok" => msg[t].snapshotCid = log[t].backend_cid
              /\ log[t].upload = "local" =>
                    msg[t].snapshotCid.of = SortKeys(arg[t].snapshot)

C13_Witness ==
    \E t \in Tasks : \E u \in Tasks \ {t} :
        /\ pc[t] = "send_message"
        /\ log[t].upload = "ok"
        /\ pc[u] = "eth_get_block"
        /\ log[u].upload = "ok"
        /\ snapshot_cid[u] # snapshot_cid[t]

\* C14: a failure of the block fetch or of the signing inside
\* generate_signature is not retried there (the block is fetched once per
\* call) and reaches the commit: the commit ends in that step with both
\* missed counters +1 and one notification, no success, no stream opened and
\* no message sent, and returns its content id.
C14_Step ==
    \A t \in Tasks :
        /\ log'[t].get_block <= 1
        /\ ( /\ pc[t] = "eth_get_block"
             /\ log'[t].error_at \in {"eth_get_block", "sign"} ) =>
              /\ pc'[t] = "returned"
              /\ result'[t].value = snapshot_cid[t]
              /\ log'[t].get_block = 1
              /\ log'[t].opened = 0
              /\ log'[t].sent = 0
              /\ log'[t].miss_submit = 1
              /\ log'[t].notified = 1
              /\ log'[t].successes = 0
              /\ status' = [status EXCEPT
                     !.totalMissedSubmissions = @ + 1,
                     !.consecutiveMissedSubmissions = @ + 1]
              /\ sink'.sent = sink.sent + 1
              /\ sink'.last.projectID = arg[t].project_id
              /\ sink'.last.epochId = arg[t].epochId
        /\ ( /\ pc[t] = "eth_get_block"
             /\ pc'[t] \in Ended
             /\ pc'[t] # "cancelled" ) =>
              log'[t].error_at \in {"eth_get_block", "sign"}

C14_SigningFailureIsMissed == [][C14_Step]_vars

C14_Witness ==
    \E t \in Tasks :
        /\ pc[t] = "returned"
        /\ log[t].error = "SigningError"
        /\ log[t].upload = "ok"
        /\ log[t].miss_submit = 1
        /\ status.consecutiveMissedSubmissions = 2

\* C15: the two metadata reads of the initialization are independent.  A
\* read that fails changes no field and one that succeeds sets its own field
\* only; after the first read, failed or not, the second is made; after the
\* second, failed or not, the channel is set up and the worker is marked
\* initialized; no exception of a read leaves _init_protocol_meta.  So after
\* a single init() call exactly the fields whose read failed are unset.
C15_Step ==
    \A c \in Callers :
        /\ (ipc[c] = "block_time" /\ ipc'[c] # "block_time"
                                  /\ ipc'[c] # "cancelled") =>
              /\ ipc'[c] = "epoch_size"
              /\ iread'[c].source_chain_block_time \in {"ok", "failed"}
              /\ worker'.epoch_size = worker.epoch_size
              /\ worker'.initialized = worker.initialized
              /\ IF iread'[c].source_chain_block_time = "failed"
                 THEN worker' = worker
                 ELSE \E v \in BlockTimes :
                        worker'.source_chain_block_time
                            = <<[num |-> v, den |-> BlockTimeDivisor]>>
        /\ (ipc[c] = "epoch_size" /\ ipc'[c] # "epoch_size"
                                  /\ ipc'[c] # "cancelled") =>
              /\ ipc'[c] = "done"
              /\ iread'[c].epoch_size \in {"ok", "failed"}
              /\ worker'.source_chain_block_time
                     = worker.source_chain_block_time
              /\ worker'.initialized
              /\ worker'.grpc = worker.grpc + 1
              /\ IF iread'[c].epoch_size = "failed"
                 THEN worker'.epoch_size = worker.epoch_size
                 ELSE worker'.epoch_size \in {<<v>> : v \in EpochSizes}
        /\ (inits' = 1 /\ ipc'[c] = "done") =>
              /\ worker'.initialized
              /\ worker'.grpc = 1
              /\ worker'.source_chain_block_time = Unset
                     <=> iread'[c].source_chain_block_time = "failed"
              /\ worker'.epoch_size = Unset
                     <=> iread'[c].epoch_size = "failed"

C15_MetadataReadsIndependent == [][C15_Step]_vars

C15_Witness ==
    \E c \in Callers :
        /\ inits = 1
        /\ ipc[c] = "done"
        /\ iread[c].source_chain_block_time = "failed"
        /\ iread[c].epoch_size = "ok"
        /\ worker.initialized
        /\ worker.source_chain_block_time = Unset
        /\ worker.epoch_size = <<10>>

\* C16: for every block number and every configured deadline buffer, the
\* deadline of the request generate_signature returns is the number of the
\* fetched block plus the buffer and is strictly greater than that number,
\* and the returned header is the hash of that same block.
C16_DeadlineAfterBlock ==
    gen.pc = "returned" =>
        /\ gen.request.deadline
               = HexToInt(gen.block.number) + settings.deadline_buffer
        /\ gen.request.deadline > HexToInt(gen.block.number)
        /\ gen.header = gen.block.hash

\* C17: a transport failure of the send or of the receive is followed by
\* exactly one attempt to cancel the stream, and however that attempt ends
\* (it returns, raises, times out or is itself cancelled) the call goes on
\* to leave its stream block: nothing of the attempt leaves the submit call
\* and no second attempt is made.
C17_Step ==
    \A t \in Tasks :
        /\ ( /\ pc[t] \in {"send_message", "recv_message"}
             /\ log'[t].error \in TransportErrors
             /\ log[t].error = "none" ) =>
              /\ pc'[t] = "stream_cancel"
              /\ log'[t].stream_cancel = 1
        /\ (pc[t] = "stream_cancel" /\ pc'[t] # pc[t]) =>
              /\ pc'[t] = "aexit"
              /\ log'[t].stream_cancel = 1
              /\ log'[t].error = log[t].error
              /\ status' = status
        /\ pc'[t] = "stream_cancel" =>
              /\ log'[t].stream_cancel = 1
              /\ log'[t].error \in TransportErrors
        /\ log'[t].stream_cancel <= 1
        /\ log'[t].stream_cancel = 1 => log'[t].error \in TransportErrors

C17_CancelNeverEscalates == [][C17_Step]_vars

C17_Witness ==
    \E t \in Tasks :
        /\ pc[t] = "aexit"
        /\ log[t].error_at = "recv_message"
        /\ log[t].error = "GRPCError"
        /\ log[t].stream_cancel = 1
        /\ log[t].cancelled_at = "stream_cancel"

\* C18: the slotId of the request generate_signature builds is the slot_id
\* the caller supplied, for every unsigned integer including 0, and the
\* configured settings.slot_id only when the caller supplied none.
C18_SuppliedSlotIdIsUsed ==
    gen.pc = "returned" =>
        gen.request.slotId = IF gen.slot_id = None
                             THEN settings.slot_id
                             ELSE gen.slot_id[1]

\* C19: without a storage backend (settings.ipfs.url unset) a commit never
\* calls add_bytes and never retries, its upload step cannot fail, its
\* content id is the local hash of the canonical bytes and of nothing else,
\* so commits with the same canonical bytes get the same content id.
C19_LocalHashOnly ==
    ~ipfs_url =>
        /\ \A t \in Tasks :
              /\ pc[t] \notin {"add_bytes", "retry_sleep"}
              /\ attempt[t] = 0
              /\ log[t].add_bytes = 0
              /\ log[t].retried = 0
              /\ log[t].upload \in {"none", "local"}
              /\ log[t].miss_upload = 0
              /\ log[t].backend_cid = Unbound
              /\ pc[t] \in Suspended =>
                    /\ log[t].upload = "local"
                    /\ snapshot_cid[t].via = "sha256"
                    /\ snapshot_cid[t].of = SortKeys(arg[t].snapshot)
              /\ pc[t] = "returned" => result[t].value.via = "sha256"
              /\ pc[t] # "raised"
        /\ \A t \in Tasks : \A u \in Tasks :
              ( /\ pc[t] \in Suspended
                /\ pc[u] \in Suspended
                /\ SortKeys(arg[t].snapshot) = SortKeys(arg[u].snapshot) )
              => snapshot_cid[t] = snapshot_cid[u]

C19_Witness ==
    /\ ~ipfs_url
    /\ \E t \in Tasks : \E u \in Tasks \ {t} :
          /\ pc[t] = "recv_message"
          /\ pc[u] = "eth_get_block"
          /\ arg[t].epochId # arg[u].epochId
          /\ SortKeys(arg[t].snapshot) = SortKeys(arg[u].snapshot)
          /\ snapshot_cid[t] = snapshot_cid[u]

\* C20: a commit adds to totalSuccessfulSubmissions only if the collector
\* acknowledged its message: a commit that recorded a success received an
\* acknowledgement, whatever happened on the stream.
C20_SuccessOnlyIfAcknowledged ==
    \A t \in Tasks : log[t].successes >= 1 => log[t].acked >= 1

\* C21 (second half): initialized is true only after all four steps of the
\* initialization completed: it becomes true only in the step in which a
\* caller's second metadata read ended and the channel was set up, the
\* clients and the RPC helpers having been set up before.
C21_InitializedStep ==
    (~worker.initialized /\ worker'.initialized) =>
        \E c \in Callers :
            /\ ipc[c] = "epoch_size"
            /\ ipc'[c] = "done"
            /\ iread'[c].source_chain_block_time \in {"ok", "failed"}
            /\ iread'[c].epoch_size \in {"ok", "failed"}
            /\ worker.httpx >= 1
            /\ worker.rpc >= 1
            /\ worker'.grpc = worker.grpc + 1

C21_InitializedAfterAllSteps ==
    worker.initialized =>
        /\ worker.httpx >= 1
        /\ worker.rpc >= 1
        /\ worker.grpc >= 1

\* C21: for any number of init() calls on one worker, overlapping ones
\* included, each step of the initialization is executed at most once: the
\* clients, the RPC helpers and the channel are set up once, a metadata
\* field that was set is never assigned again; and initialized is true only
\* after all four steps completed.
C21_Step ==
    /\ worker'.httpx <= 1
    /\ worker'.rpc <= 1
    /\ worker'.grpc <= 1
    /\ worker.source_chain_block_time # Unset =>
          ~(\E c \in Callers : ipc[c] = "block_time" /\ ipc'[c] = "epoch_size"
                               /\ iread'[c].source_chain_block_time = "ok")
    /\ worker.epoch_size # Unset =>
          ~(\E c \in Callers : ipc[c] = "epoch_size" /\ ipc'[c] = "done"
                               /\ iread'[c].epoch_size = "ok")
    /\ C21_InitializedStep

C21_InitStepsAtMostOnce == [][C21_Step]_vars

\* two init() calls overlapped: the second was made while the first was
\* suspended at a metadata read, and set up the clients again
C21_OverlapReached ==
    /\ inits = 2
    /\ \A c \in Callers : ipc[c] = "block_time"
    /\ worker.httpx = 2
    /\ worker.rpc = 2
    /\ ~worker.initialized

\* C22: under any interleaving of open_stream contexts and _cancel_stream
\* calls, no live stream is leaked from the tracked reference: whenever
\* self._stream is None no stream opened through open_stream is still open
\* and uncancelled, and a _cancel_stream call that ended cleared the
\* reference of no stream but the one it cancelled.
C22_TrackedStreamNotLeaked ==
    /\ self_stream = NoStream =>
          \A s \in TrackedStreamIds : streams[s] # "open"
    /\ \A w \in Watchdogs :
          canc[w].pc = "done" => canc[w].cleared \in {NoStream, canc[w].target}

\* C22 (what holds): the stream self._stream names was opened through
\* open_stream by a context that is still inside its block, and while a
\* single context is in flight and no _cancel_stream call was made, the
\* stream of that context is the tracked one.
C22_TrackedIsOpenedHere ==
    /\ self_stream # NoStream =>
          \E k \in Contexts :
              ctx[k].pc \in {"body", "aexit"} /\ ctx[k].stream = self_stream
    /\ \A k \in Contexts :
          ( /\ cancels = 0
            /\ ctx[k].pc \in {"body", "aexit"}
            /\ \A j \in Contexts \ {k} : ctx[j].pc = "idle" )
          => self_stream = ctx[k].stream

\* a context left its block and cleared self._stream while the stream of
\* another context is open
C22_LeakReached ==
    \E k \in Contexts : \E j \in Contexts \ {k} :
        /\ cancels = 0
        /\ ctx[k].pc = "body"
        /\ streams[ctx[k].stream] = "open"
        /\ ctx[j].pc = "exited"
        /\ self_stream = NoStream

====
